---- MODULE Spec2Model ----
(***************************************************************************)
(* A model of the streaming pipelines of packages/bigtable/src/table.js:   *)
(* Table.prototype.mutate, insert, getRows and sampleRowKeys.              *)
(*                                                                         *)
(* One behaviour is one API call on a constructed Table: the call builds   *)
(* its request and opens the pipeline pumpify.obj([requestStream, through])*)
(* and then the source stream delivers messages, ends or fails while the   *)
(* through handler transforms one message at a time.                       *)
(***************************************************************************)
EXTENDS Integers, Sequences, FiniteSets, TLC

(***************************************************************************)
(* Bounds of the model.                                                    *)
(***************************************************************************)
\* the most entry objects a caller passes to mutate
MaxEntries == 2
\* the most messages the source stream delivers in one call
MaxMsgs == 2
\* the most statuses (mutate) or rows (getRows) one message carries
MaxMsgLen == 2
\* the most explicit keys in getRows options
MaxKeys == 2
\* the most explicit ranges in getRows options
MaxRanges == 2
\* the largest options.limit a caller of getRows passes
MaxLimit == 2
\* stands for the documented batch limit of 100,000 entries (table.js:786-787),
\* scaled down so that a call can exceed it
MaxBatch == 1

(***************************************************************************)
(* JavaScript values.                                                      *)
(***************************************************************************)
Undefined == "undefined"
Null == "null"
TableId == "projects/p/instances/i/tables/t"

\* JavaScript truthiness of a string-or-undefined value
Truthy(v) == v # Undefined /\ v # Null /\ v # ""

\* an optional array: def = FALSE is undefined, an array (even []) is truthy
None == [def |-> FALSE, v |-> <<>>]
Some(s) == [def |-> TRUE, v |-> s]

\* an optional number: def = FALSE is undefined
NoLimit == [def |-> FALSE, v |-> 0]
Limit(n) == [def |-> TRUE, v |-> n]

MapSeq(f(_), s) == [i \in 1..Len(s) |-> f(s[i])]

(***************************************************************************)
(* Entries: the caller's objects.  An entry object is identified by its    *)
(* key; an array is a value holding its items.                             *)
(***************************************************************************)
MethodOf(k) == IF k % 2 = 1 THEN "insert" ELSE "delete"
Obj(k) == [t |-> "obj", key |-> k, method |-> MethodOf(k), items |-> <<>>]
Arr(s) == [t |-> "arr", key |-> 0, method |-> Undefined, items |-> s]
\* what entries[i] yields past the end of the array
NoEntry == [t |-> "undefined", key |-> 0, method |-> Undefined, items |-> <<>>]

isArray(x) == x.t = "arr"

\* arrify: an array is returned as is, any other value is wrapped
arrify(x) == IF isArray(x) THEN x.items ELSE <<x>>

\* lodash.flatten: flattens ONE level
RECURSIVE flatten(_)
flatten(s) ==
  IF s = <<>> THEN <<>>
  ELSE (IF isArray(Head(s)) THEN Head(s).items ELSE <<Head(s)>>) \o flatten(Tail(s))

\* mutate's local `entries` (line 821)
MutateEntries(E) == flatten(arrify(E))

(***************************************************************************)
(* The entries arguments a caller passes to mutate: a single entry, a flat *)
(* list, and every way of grouping the list's entries into nested lists    *)
(* (one level deep, which flatten undoes, and two levels deep).            *)
(***************************************************************************)
LeafSeq(n) == [i \in 1..n |-> Obj(i)]

Heads(b) == (IF Len(b) = 1 THEN {b[1]} ELSE {}) \cup {Arr(b), Arr(<<Arr(b)>>)}

RECURSIVE Nest(_)
Nest(s) ==
  IF s = <<>> THEN {<<>>}
  ELSE UNION { { <<h>> \o r : h \in Heads(SubSeq(s, 1, k)),
                              r \in Nest(SubSeq(s, k + 1, Len(s))) }
               : k \in 1..Len(s) }

MutateInputs ==
  {Obj(1), Arr(<<Arr(<<>>)>>)}
    \cup UNION { {Arr(s) : s \in Nest(LeafSeq(n))} : n \in 0..MaxEntries }

(***************************************************************************)
(* Mutation.parse, the external encoder (mutation.js is not part of the    *)
(* sources): an entry becomes its wire form; a value without a row key is  *)
(* a construction error raised to the caller.                              *)
(***************************************************************************)
ParseRaises(e) == e.t # "obj"
Parse(e) == [rowKey |-> e.key, mutation |-> e.method]

\* reqOpts of mutate (lines 828-832)
MutateReqOpts(ents) == [tableName |-> TableId, entries |-> MapSeq(Parse, ents)]
NoMutateReq == [tableName |-> Undefined, entries |-> <<>>]

(***************************************************************************)
(* The status stream of the mutate call.                                   *)
(***************************************************************************)
\* status codes the service reports: 0 is success
Codes == {0, 5}

\* GrpcService.decorateStatus_ (external): the status as an object of its own
DecorateStatus(status) == [kind |-> "status", code |-> status.code, entry |-> NoEntry]

\* the payload of a stream-level error, and of an event without payload
StreamErr == [kind |-> "stream", code |-> 14, entry |-> NoEntry]
NoPayload == [kind |-> "none", code |-> 0, entry |-> NoEntry]

\* entries[entry.index] (line 853): JavaScript arrays are 0-based
LookupEntryOffByOne(ents, index) ==
  IF index + 2 \in 1..Len(ents) THEN ents[index + 2] ELSE NoEntry
LookupEntry(ents, index) ==
  IF index + 1 \in 1..Len(ents) THEN ents[index + 1] ELSE NoEntry

\* entry.status.code === 0 (line 848)
IsSuccessNever(code) == FALSE
IsSuccess(code) == code = 0

\* the decorated status of one failed wire entry (lines 852-853)
Decorated(ents, e) ==
  [DecorateStatus([code |-> e.code]) EXCEPT !.entry = LookupEntry(ents, e.index)]

\* messages the service may still send when the indices in avail are unreported
RECURSIVE StatusMsgs(_, _)
StatusMsgs(avail, k) ==
  IF k = 0 THEN {<<>>}
  ELSE {<<>>} \cup
       UNION { { <<[index |-> i, code |-> c]>> \o m : c \in Codes,
                                                      m \in StatusMsgs(avail \ {i}, k - 1) }
               : i \in avail }

RECURSIVE Concat(_)
Concat(ss) == IF ss = <<>> THEN <<>> ELSE Head(ss) \o Concat(Tail(ss))

(***************************************************************************)
(* State.                                                                  *)
(***************************************************************************)
VARIABLES
  pc,                \* idle | open | ended | errored | threw | crashed
  op,                \* the API call made: none | mutate | getRows | sampleRowKeys
  viaInsert,         \* mutate was called by Table.prototype.insert
  callerArg,         \* mutate, insert: the caller's argument before the call
  callerArgAfter,    \* mutate, insert: the caller's same objects after the call
  arg,               \* mutate: the entries argument as mutate was passed it
  entries,           \* mutate: the local, flattened `entries`
  mutateReq,         \* mutate: reqOpts handed to requestStream
  options,           \* getRows: the caller's options object
  readReq,           \* getRows: reqOpts handed to requestStream
  prevReq,           \* getRows: reqOpts of an earlier call with the same options object
  requestStreamCalls,\* how often requestStream was invoked
  isCallbackMode,    \* a callback was supplied
  hasErrorListener,  \* the caller listens for 'error' on the returned handle
  received,          \* the messages the source stream has delivered, in order
  queue,             \* messages written to the through stream, not yet transformed
  processed,         \* how many messages the through handler has taken up
  srcEnded,          \* the source stream has ended normally
  pushed,            \* what the through handler pushed downstream, in order
  emitted,           \* the events emitted on the returned handle, in order
  callbackCalls,     \* the invocations of the callback, in order
  delivered,         \* stream mode: the items the consumer got as 'data', in order
  consumerEnded      \* stream mode: the consumer has called end() on the stream

vars == <<pc, op, viaInsert, callerArg, callerArgAfter, arg, entries, mutateReq,
          options, readReq, prevReq, requestStreamCalls,
          isCallbackMode, hasErrorListener, received, queue, processed, srcEnded,
          pushed, emitted, callbackCalls, delivered, consumerEnded>>

\* the consumer's side of a returned stream
consumerVars == <<delivered, consumerEnded>>

callVars == <<op, prevReq, viaInsert, callerArg, callerArgAfter, arg, entries, mutateReq, options, readReq, requestStreamCalls,
              isCallbackMode, hasErrorListener>>

NoOptions == [keys |-> None, ranges |-> None, start |-> Undefined, end |-> Undefined,
              limit |-> NoLimit, filter |-> Undefined]
NoReadReq == [tableName |-> Undefined, hasRows |-> FALSE, rowKeys |-> None,
              rowRanges |-> None, numRowsLimit |-> NoLimit, filter |-> Undefined]

\* an event on the returned handle; during is the number of the message whose
\* handler emitted it (0: emitted outside the through handler)
Event(type, payload, during) == [type |-> type, payload |-> payload, during |-> during]

\* callback(err) and callback(null, result)
CallbackErrorWithBuffer(err, buffer) == [err |-> err, hasResult |-> TRUE, result |-> buffer]
CallbackError(err, buffer) == [err |-> err, hasResult |-> FALSE, result |-> <<>>]
CallbackResult(result) == [err |-> NoPayload, hasResult |-> TRUE, result |-> result]

Init ==
  /\ pc = "idle"
  /\ op = "none"
  /\ viaInsert = FALSE
  /\ callerArg = NoEntry
  /\ callerArgAfter = NoEntry
  /\ arg = NoEntry
  /\ entries = <<>>
  /\ mutateReq = NoMutateReq
  /\ options = NoOptions
  /\ readReq = NoReadReq
  /\ prevReq = NoReadReq
  /\ requestStreamCalls = 0
  /\ isCallbackMode = FALSE
  /\ hasErrorListener = FALSE
  /\ received = <<>>
  /\ queue = <<>>
  /\ processed = 0
  /\ srcEnded = FALSE
  /\ pushed = <<>>
  /\ emitted = <<>>
  /\ callbackCalls = <<>>
  /\ delivered = <<>>
  /\ consumerEnded = FALSE

(***************************************************************************)
(* Table.prototype.mutate (lines 820-879).                                 *)
(***************************************************************************)
\* the call itself: flatten, encode, open the stream, wire the handlers and return
MutateCall ==
  /\ pc = "idle"
  /\ \E E \in MutateInputs, cb \in BOOLEAN, listens \in BOOLEAN :
       LET ents == MutateEntries(E) IN
       /\ cb => ~listens
       /\ viaInsert' = FALSE
       /\ callerArg' = E
       /\ callerArgAfter' = E
       /\ op' = "mutate"
       /\ arg' = E
       /\ entries' = ents
       /\ isCallbackMode' = cb
       /\ hasErrorListener' = listens
       /\ IF \E i \in 1..Len(ents) : ParseRaises(ents[i])
          THEN /\ pc' = "threw"
               /\ UNCHANGED <<mutateReq, requestStreamCalls>>
          ELSE /\ pc' = "open"
               /\ mutateReq' = MutateReqOpts(ents)
               /\ requestStreamCalls' = requestStreamCalls + 1
  /\ UNCHANGED <<options, readReq, received, queue, processed, srcEnded, pushed,
                 emitted, callbackCalls>>
  /\ UNCHANGED consumerVars
  /\ UNCHANGED prevReq

(***************************************************************************)
(* Table.prototype.insert (lines 699-703).                                 *)
(***************************************************************************)
\* propAssign('method', Mutation.methods.INSERT): the function map applies; it
\* sets the property on the very object it is given and returns that object
propAssign(x) == [x EXCEPT !.method = "insert"]

\* insert's local `entries` (line 700): a new array of the visited objects
InsertEntries(E) == Arr(MapSeq(propAssign, arrify(E)))

\* the caller's argument once insert has run: map leaves the caller's array as
\* it is, its elements (or the single entry) are the objects propAssign wrote to
AfterInsert(E) ==
  IF isArray(E) THEN [E EXCEPT !.items = MapSeq(propAssign, E.items)]
  ELSE propAssign(E)

\* the call: tag, then this.mutate(entries, callback) (line 702)
InsertCall ==
  /\ pc = "idle"
  /\ \E E \in MutateInputs, cb \in BOOLEAN, listens \in BOOLEAN :
       LET tagged == InsertEntries(E)
           ents == MutateEntries(tagged)
       IN
       /\ cb => ~listens
       /\ viaInsert' = TRUE
       /\ callerArg' = E
       /\ callerArgAfter' = AfterInsert(E)
       /\ op' = "mutate"
       /\ arg' = tagged
       /\ entries' = ents
       /\ isCallbackMode' = cb
       /\ hasErrorListener' = listens
       /\ IF \E i \in 1..Len(ents) : ParseRaises(ents[i])
          THEN /\ pc' = "threw"
               /\ UNCHANGED <<mutateReq, requestStreamCalls>>
          ELSE /\ pc' = "open"
               /\ mutateReq' = MutateReqOpts(ents)
               /\ requestStreamCalls' = requestStreamCalls + 1
  /\ UNCHANGED <<options, readReq, received, queue, processed, srcEnded, pushed,
                 emitted, callbackCalls>>
  /\ UNCHANGED consumerVars
  /\ UNCHANGED prevReq

\* the indices the service has reported so far
Reported == {e.index : e \in {Concat(received)[i] : i \in 1..Len(Concat(received))}}

\* the source stream (requestStream, line 842) delivers one message of statuses
MutateSourceData ==
  /\ pc = "open" /\ op = "mutate"
  /\ ~srcEnded
  /\ Len(received) < MaxMsgs
  /\ \E msg \in StatusMsgs((0..(Len(entries) - 1)) \ Reported, MaxMsgLen) :
       /\ received' = Append(received, msg)
       /\ queue' = Append(queue, msg)
  /\ UNCHANGED <<pc, callVars, processed, srcEnded, pushed, emitted, callbackCalls>>
  /\ UNCHANGED consumerVars

\* data.entries.forEach(...) (lines 846-862): the decorated failures in order
FailuresStopAtFirst(ents, data) ==
  LET bad == {i \in 1..Len(data) : ~IsSuccess(data[i].code)}
  IN IF bad = {} THEN <<>>
     ELSE <<Decorated(ents, data[CHOOSE i \in bad : \A j \in bad : i <= j])>>
RECURSIVE Failures(_, _)
Failures(ents, data) ==
  IF data = <<>> THEN <<>>
  ELSE (IF IsSuccess(Head(data).code) THEN <<>> ELSE <<Decorated(ents, Head(data))>>)
       \o Failures(ents, Tail(data))

\* the through handler of mutate takes up one message (lines 843-865)
MutateTransform ==
  /\ pc = "open" /\ op = "mutate"
  /\ queue # <<>>
  /\ processed' = processed + 1
  /\ queue' = Tail(queue)
  /\ LET fails == Failures(entries, Head(queue))
         n == processed + 1
     IN IF isCallbackMode
        THEN \* throughStream.push(status)
             /\ pushed' = pushed \o fails
             /\ UNCHANGED <<pc, emitted>>
        ELSE IF hasErrorListener \/ fails = <<>>
        THEN \* emitter.emit('error', status) for each failure, then next()
             /\ emitted' = emitted \o [i \in 1..Len(fails) |-> Event("error", fails[i], n)]
             /\ UNCHANGED <<pc, pushed>>
        ELSE \* emit('error') without a listener throws out of the handler
             /\ emitted' = Append(emitted, Event("error", fails[1], n))
             /\ pc' = "crashed"
             /\ UNCHANGED pushed
  /\ UNCHANGED <<callVars, received, srcEnded, callbackCalls>>
  /\ UNCHANGED consumerVars

\* the source stream ends normally
SourceEnd ==
  /\ pc = "open"
  /\ ~srcEnded
  /\ srcEnded' = TRUE
  /\ UNCHANGED <<pc, callVars, received, queue, processed, pushed, emitted,
                 callbackCalls>>
  /\ UNCHANGED consumerVars

\* pumpify holds back 'finish' and 'end' until every stream of the pipeline is
\* done: the source has ended and the through stream has transformed all it got
PipelineDoneEarly == srcEnded
PipelineDone == srcEnded /\ queue = <<>>

\* stream 'error': callback(err) (line 875) or emitter.emit('error', err) (line 869)
MutateStreamErrorThenEnd ==
  /\ pc = "open" /\ op = "mutate"
  /\ ~srcEnded
  /\ srcEnded' = TRUE
  /\ IF isCallbackMode
     THEN /\ callbackCalls' = Append(callbackCalls, CallbackError(StreamErr, pushed))
          /\ UNCHANGED emitted
     ELSE /\ emitted' = Append(emitted, Event("error", StreamErr, 0))
          /\ UNCHANGED callbackCalls
  /\ UNCHANGED <<pc, callVars, received, queue, processed, pushed, consumerVars>>
MutateStreamError ==
  /\ pc = "open" /\ op = "mutate"
  /\ ~srcEnded
  /\ IF isCallbackMode
     THEN /\ callbackCalls' = Append(callbackCalls, CallbackError(StreamErr, pushed))
          /\ pc' = "errored"
          /\ UNCHANGED emitted
     ELSE /\ emitted' = Append(emitted, Event("error", StreamErr, 0))
          /\ pc' = IF hasErrorListener THEN "errored" ELSE "crashed"
          /\ UNCHANGED callbackCalls
  /\ UNCHANGED <<callVars, received, queue, processed, srcEnded, pushed>>
  /\ UNCHANGED consumerVars

\* stream 'finish': emitter.emit('complete') (line 870); in callback mode the
\* piped concat stream ends and calls callback(null, mutationErrors) (876-878)
MutateFinish ==
  /\ pc = "open" /\ op = "mutate"
  /\ PipelineDone
  /\ pc' = "ended"
  /\ IF isCallbackMode
     THEN /\ callbackCalls' = Append(callbackCalls, CallbackResult(pushed))
          /\ UNCHANGED emitted
     ELSE /\ emitted' = Append(emitted, Event("complete", NoPayload, 0))
          /\ UNCHANGED callbackCalls
  /\ UNCHANGED <<callVars, received, queue, processed, srcEnded, pushed>>
  /\ UNCHANGED consumerVars

(***************************************************************************)
(* Table.prototype.getRows (lines 541-619).                                *)
(***************************************************************************)
AllKeys == <<"a", "b", "c", "d", "e", "f">>

\* options.keys: absent, or the first n of the keys above
KeysOpts == {None} \cup {Some(SubSeq(AllKeys, 1, n)) : n \in 0..MaxKeys}

\* options.ranges: absent, or n explicit ranges
ExplicitRange(i) == [start |-> AllKeys[i], end |-> AllKeys[i + 1]]
RangesOpts == {None} \cup {Some([i \in 1..n |-> ExplicitRange(i)]) : n \in 0..MaxRanges}

\* options.start and options.end: absent, the empty string, or a key
StartVals == {Undefined, "", "s"}
EndVals == {Undefined, "", "t"}

\* the options that select rows
RowOpts ==
  [keys : KeysOpts, ranges : RangesOpts, start : StartVals, end : EndVals]

WithLimit(o, l) ==
  [keys |-> o.keys, ranges |-> o.ranges, start |-> o.start, end |-> o.end, limit |-> l,
   filter |-> Undefined]

\* options.filter: absent, null, a filter that parses, a filter that does not
ValidFilter == "[{column: 'gwashington'}, {value: 1}]"
MalformedFilter == "[{nosuchfilter: 1}]"
FilterVals == {Null, ValidFilter, MalformedFilter}

WithFilter(o, f) ==
  [keys |-> o.keys, ranges |-> o.ranges, start |-> o.start, end |-> o.end,
   limit |-> NoLimit, filter |-> f]

\* the row selections a filter is combined with
FilteredOpts ==
  {o \in RowOpts : /\ o.keys = None /\ o.ranges = None
                   /\ o.start # "" /\ o.end = Undefined}

\* the row selections a limit is combined with
LimitedOpts ==
  {o \in RowOpts : /\ Len(o.keys.v) <= 1 /\ o.ranges = None
                   /\ o.start # "" /\ o.end = Undefined}

\* the options a caller passes: every row selection without limit and filter, a
\* few row selections with each limit 0..MaxLimit, and a few with each filter
GetRowsInputs ==
  {WithLimit(o, NoLimit) : o \in RowOpts}
    \cup {WithLimit(o, Limit(n)) : o \in LimitedOpts, n \in 0..MaxLimit}
    \cup {WithFilter(o, f) : o \in FilteredOpts, f \in FilterVals}

\* Mutation.convertToBytes and Filter.createRange (external codecs)
convertToBytes(k) == [bytes |-> k]
createRange(range) == [kind |-> "Key", startKey |-> range.start, endKey |-> range.end]

\* if (options.start || options.end) (line 562)
ShorthandGiven(opts) == Truthy(opts.start) \/ Truthy(opts.end)

\* options.ranges after lines 550 and 562-567
GetRowsRangesReplaced(opts) ==
  IF ShorthandGiven(opts) THEN <<[start |-> opts.start, end |-> opts.end]>>
  ELSE IF opts.ranges.def THEN opts.ranges.v ELSE <<>>
GetRowsRanges(opts) ==
  LET ranges == IF opts.ranges.def THEN opts.ranges.v ELSE <<>>
  IN IF ShorthandGiven(opts)
     THEN Append(ranges, [start |-> opts.start, end |-> opts.end])
     ELSE ranges

\* if (options.limit) reqOpts.numRowsLimit = options.limit (lines 587-589)
GetRowsLimit(opts) ==
  IF opts.limit.def /\ opts.limit.v # 0 THEN Limit(opts.limit.v) ELSE NoLimit

\* Filter.parse (filter.js is not part of the sources): the wire form of a
\* filter; a filter it cannot parse is an error raised to its caller
FilterParseRaises(f) == f = MalformedFilter
FilterParse(f) == IF f = ValidFilter THEN "RowFilter{chain}" ELSE Undefined

\* if (options.filter) reqOpts.filter = Filter.parse(options.filter) (583-585)
GetRowsFilter(opts) ==
  IF Truthy(opts.filter) THEN FilterParse(opts.filter) ELSE Undefined

\* an exception of Filter.parse leaves getRows at line 584: nothing catches it
GetRowsRaisesNever(opts) == FALSE
GetRowsRaises(opts) == Truthy(opts.filter) /\ FilterParseRaises(opts.filter)

\* reqOpts of getRows (lines 557-589); opts.ranges is the array of lines 550-567
GetRowsReqOptsKeysFirst(opts) ==
  [tableName |-> TableId,
   hasRows |-> opts.keys.def \/ Len(opts.ranges.v) > 0,
   rowKeys |-> IF opts.keys.def THEN Some(MapSeq(convertToBytes, opts.keys.v)) ELSE None,
   rowRanges |-> IF ~opts.keys.def /\ Len(opts.ranges.v) > 0
                 THEN Some(MapSeq(createRange, opts.ranges.v)) ELSE None,
   numRowsLimit |-> GetRowsLimit(opts),
   filter |-> GetRowsFilter(opts)]
GetRowsReqOpts(opts) ==
  [tableName |-> TableId,
   hasRows |-> opts.keys.def \/ Len(opts.ranges.v) > 0,
   rowKeys |-> IF opts.keys.def THEN Some(MapSeq(convertToBytes, opts.keys.v)) ELSE None,
   rowRanges |-> IF Len(opts.ranges.v) > 0
                 THEN Some(MapSeq(createRange, opts.ranges.v)) ELSE None,
   numRowsLimit |-> GetRowsLimit(opts),
   filter |-> GetRowsFilter(opts)]

\* the call itself: shape the request, open the stream, wire the handlers, return
GetRowsCall ==
  /\ pc = "idle"
  /\ \E opts \in GetRowsInputs, cb \in BOOLEAN, listens \in BOOLEAN :
       LET after == [opts EXCEPT !.ranges = Some(GetRowsRanges(opts))] IN
       /\ cb => ~listens
       /\ op' = "getRows"
       /\ arg' = opts
       /\ options' = after
       /\ isCallbackMode' = cb
       /\ hasErrorListener' = listens
       /\ IF GetRowsRaises(after)
          THEN /\ pc' = "threw"
               /\ UNCHANGED <<readReq, requestStreamCalls>>
          ELSE /\ pc' = "open"
               /\ readReq' = GetRowsReqOpts(after)
               /\ requestStreamCalls' = requestStreamCalls + 1
  /\ UNCHANGED <<viaInsert, callerArg, callerArgAfter, entries, mutateReq, received,
                 queue, processed, srcEnded, pushed, emitted, callbackCalls>>
  /\ UNCHANGED consumerVars
  /\ UNCHANGED prevReq

\* a later call, the first being over, with the options object the caller
\* passed before: the object as lines 550 and 563 of that call left it
GetRowsCallAgain ==
  /\ op = "getRows"
  /\ pc \in {"ended", "errored"}
  /\ prevReq = NoReadReq
  /\ \E cb \in BOOLEAN, listens \in BOOLEAN :
       LET after == [options EXCEPT !.ranges = Some(GetRowsRanges(options))] IN
       /\ cb => ~listens
       /\ arg' = options
       /\ options' = after
       /\ prevReq' = readReq
       /\ readReq' = GetRowsReqOpts(after)
       /\ requestStreamCalls' = requestStreamCalls + 1
       /\ isCallbackMode' = cb
       /\ hasErrorListener' = listens
       /\ pc' = "open"
  \* the new call has a pipeline of its own
  /\ received' = <<>>
  /\ queue' = <<>>
  /\ processed' = 0
  /\ srcEnded' = FALSE
  /\ pushed' = <<>>
  /\ emitted' = <<>>
  /\ callbackCalls' = <<>>
  /\ delivered' = <<>>
  /\ consumerEnded' = FALSE
  /\ UNCHANGED <<op, viaInsert, callerArg, callerArgAfter, entries, mutateReq>>

\* the k-th row the service streams, as the chunks of one message carry it
Chunk(k) == [rowKey |-> k, value |-> k + 100]

\* the source stream (requestStream, line 592) delivers one message of chunks
GetRowsSourceData ==
  /\ pc = "open" /\ op = "getRows"
  /\ ~srcEnded
  /\ Len(received) < MaxMsgs
  /\ \E n \in 0..MaxMsgLen :
       LET msg == [i \in 1..n |-> Chunk(Len(Concat(received)) + i)] IN
       /\ received' = Append(received, msg)
       /\ queue' = Append(queue, msg)
  /\ UNCHANGED <<pc, callVars, processed, srcEnded, pushed, emitted, callbackCalls>>
  /\ UNCHANGED consumerVars

\* Row.formatChunks_ (external Row Reconstructor): the rows of one message
FormatChunks(chunks) == MapSeq(LAMBDA c : [key |-> c.rowKey, data |-> c.value], chunks)

\* self.row(key) (lines 892-898) and row.data = rowData.data (line 602)
RowHandlePushedBare(rowData) == [table |-> TableId, key |-> rowData.key, data |-> 0]
RowHandle(rowData) == [table |-> TableId, key |-> rowData.key, data |-> rowData.data]

\* rows.forEach(... throughStream.push(row)) (lines 599-604)
RowsOf(chunks) == MapSeq(RowHandle, FormatChunks(chunks))

\* the through handler of getRows takes up one message (lines 593-607)
GetRowsTransform ==
  /\ pc = "open" /\ op = "getRows"
  /\ queue # <<>>
  /\ processed' = processed + 1
  /\ queue' = Tail(queue)
  /\ pushed' = pushed \o RowsOf(Head(queue))
  /\ UNCHANGED <<pc, callVars, received, srcEnded, emitted, callbackCalls>>
  /\ UNCHANGED consumerVars

\* stream 'error': callback(err) (line 615), or the returned stream's own event
GetRowsStreamErrorKeepsOpen ==
  /\ pc = "open" /\ op = "getRows"
  /\ ~srcEnded
  /\ Len(emitted) + Len(callbackCalls) < MaxMsgs
  /\ IF isCallbackMode
     THEN /\ callbackCalls' = Append(callbackCalls, CallbackError(StreamErr, pushed))
          /\ UNCHANGED emitted
     ELSE /\ emitted' = Append(emitted, Event("error", StreamErr, 0))
          /\ UNCHANGED callbackCalls
  /\ UNCHANGED <<pc, callVars, received, queue, processed, srcEnded, pushed, consumerVars>>
GetRowsStreamError ==
  /\ pc = "open" /\ op = "getRows"
  /\ ~srcEnded
  /\ IF isCallbackMode
     THEN /\ callbackCalls' = Append(callbackCalls, CallbackError(StreamErr, pushed))
          /\ pc' = "errored"
          /\ UNCHANGED emitted
     ELSE /\ emitted' = Append(emitted, Event("error", StreamErr, 0))
          /\ pc' = IF hasErrorListener THEN "errored" ELSE "crashed"
          /\ UNCHANGED callbackCalls
  /\ UNCHANGED <<callVars, received, queue, processed, srcEnded, pushed>>
  /\ UNCHANGED consumerVars

\* stream.end() reaches the first stream of the pipeline, the stream that
\* requestStream returned (common/grpc-service.js is not part of the sources):
\* the call is closed, the source hands over no further message
RequestStreamEnded(wasEnded, endCalled) == wasEnded \/ endCalled

\* the returned stream hands its consumer the next item as 'data' (lines
\* 521-539, 914-927); the consumer's handler may call this.end() (lines 533-539)
StreamData ==
  /\ pc = "open" /\ op \in {"getRows", "sampleRowKeys"}
  /\ ~isCallbackMode
  /\ Len(delivered) < Len(pushed)
  /\ delivered' = Append(delivered, pushed[Len(delivered) + 1])
  /\ \E endCalled \in BOOLEAN :
       /\ consumerEnded' = (consumerEnded \/ endCalled)
       /\ srcEnded' = RequestStreamEnded(srcEnded, endCalled)
  /\ UNCHANGED <<pc, callVars, received, queue, processed, pushed, emitted,
                 callbackCalls>>

\* the readable side is done once the consumer has been handed all that was pushed
DrainedAlways == TRUE
Drained == isCallbackMode \/ Len(delivered) = Len(pushed)

\* the stream ends: concat calls callback(null, rows) (lines 616-618), or the
\* returned stream emits 'end'
GetRowsEnd ==
  /\ pc = "open" /\ op = "getRows"
  /\ PipelineDone
  /\ Drained
  /\ pc' = "ended"
  /\ IF isCallbackMode
     THEN /\ callbackCalls' = Append(callbackCalls, CallbackResult(pushed))
          /\ UNCHANGED emitted
     ELSE /\ emitted' = Append(emitted, Event("end", NoPayload, 0))
          /\ UNCHANGED callbackCalls
  /\ UNCHANGED <<callVars, received, queue, processed, srcEnded, pushed>>
  /\ UNCHANGED consumerVars

(***************************************************************************)
(* Table.prototype.sampleRowKeys (lines 938-968).                          *)
(***************************************************************************)
\* the call itself: open the stream, wire the handlers, return (lines 938-967)
SampleRowKeysCall ==
  /\ pc = "idle"
  /\ \E cb \in BOOLEAN, listens \in BOOLEAN :
       /\ cb => ~listens
       /\ isCallbackMode' = cb
       /\ hasErrorListener' = listens
  /\ op' = "sampleRowKeys"
  /\ requestStreamCalls' = requestStreamCalls + 1
  /\ pc' = "open"
  /\ UNCHANGED <<viaInsert, callerArg, callerArgAfter, arg, entries, mutateReq,
                 options, readReq, received, queue, processed, srcEnded, pushed,
                 emitted, callbackCalls, consumerVars>>
  /\ UNCHANGED prevReq

\* the k-th sample the service streams
RawKey(k) == [rowKey |-> AllKeys[k], offsetBytes |-> k * 1024]

\* the source stream (requestStream, line 950) delivers one sample per message
SampleSourceData ==
  /\ pc = "open" /\ op = "sampleRowKeys"
  /\ ~srcEnded
  /\ Len(received) < MaxMsgs
  /\ LET msg == <<RawKey(Len(received) + 1)>> IN
       /\ received' = Append(received, msg)
       /\ queue' = Append(queue, msg)
  /\ UNCHANGED <<pc, callVars, processed, srcEnded, pushed, emitted, callbackCalls,
                 consumerVars>>

\* next(null, {key: key.rowKey, offset: key.offsetBytes}) (lines 952-955)
SampleKeyOffsetLost(key) == [key |-> key.rowKey, offset |-> 0]
SampleKey(key) == [key |-> key.rowKey, offset |-> key.offsetBytes]

\* the through handler of sampleRowKeys takes up one sample (lines 951-956)
SampleTransform ==
  /\ pc = "open" /\ op = "sampleRowKeys"
  /\ queue # <<>>
  /\ processed' = processed + 1
  /\ queue' = Tail(queue)
  /\ pushed' = Append(pushed, SampleKey(Head(queue)[1]))
  /\ UNCHANGED <<pc, callVars, received, srcEnded, emitted, callbackCalls,
                 consumerVars>>

\* stream 'error': callback(err) (line 964), or the returned stream's own event
SampleStreamError ==
  /\ pc = "open" /\ op = "sampleRowKeys"
  /\ ~srcEnded
  /\ IF isCallbackMode
     THEN /\ callbackCalls' = Append(callbackCalls, CallbackError(StreamErr, pushed))
          /\ pc' = "errored"
          /\ UNCHANGED emitted
     ELSE /\ emitted' = Append(emitted, Event("error", StreamErr, 0))
          /\ pc' = IF hasErrorListener THEN "errored" ELSE "crashed"
          /\ UNCHANGED callbackCalls
  /\ UNCHANGED <<callVars, received, queue, processed, srcEnded, pushed, consumerVars>>

\* the stream ends: concat calls callback(null, keys) (lines 965-967), or the
\* returned stream emits 'end'
SampleEnd ==
  /\ pc = "open" /\ op = "sampleRowKeys"
  /\ PipelineDone
  /\ Drained
  /\ pc' = "ended"
  /\ IF isCallbackMode
     THEN /\ callbackCalls' = Append(callbackCalls, CallbackResult(pushed))
          /\ UNCHANGED emitted
     ELSE /\ emitted' = Append(emitted, Event("end", NoPayload, 0))
          /\ UNCHANGED callbackCalls
  /\ UNCHANGED <<callVars, received, queue, processed, srcEnded, pushed, consumerVars>>

Next ==
  \/ MutateCall
  \/ InsertCall
  \/ MutateSourceData
  \/ MutateTransform
  \/ SourceEnd
  \/ MutateStreamError
  \/ MutateFinish
  \/ GetRowsCall
  \/ GetRowsSourceData
  \/ GetRowsTransform
  \/ GetRowsStreamError
  \/ StreamData
  \/ GetRowsEnd
  \/ SampleRowKeysCall
  \/ SampleSourceData
  \/ SampleTransform
  \/ SampleStreamError
  \/ SampleEnd

Spec == Init /\ [][Next]_vars

\* the same, with a caller that reuses its options object for a second getRows
NextTwoCalls ==
  \/ Next
  \/ GetRowsCallAgain

SpecTwoCalls == Init /\ [][NextTwoCalls]_vars

(***************************************************************************)
(* Vocabulary of the properties.                                           *)
(***************************************************************************)
\* every status (mutate) or chunk (getRows) the service delivered, in arrival order
Wire == Concat(received)

\* the statuses the service reported with a non-zero code, in arrival order
NonZero == SelectSeq(Wire, LAMBDA e : e.code # 0)

\* the entries of an argument in the order the caller wrote them, however nested
RECURSIVE EntriesIn(_)
EntriesIn(s) ==
  IF s = <<>> THEN <<>>
  ELSE (IF Head(s).t = "arr" THEN EntriesIn(Head(s).items) ELSE <<Head(s)>>)
       \o EntriesIn(Tail(s))
OriginalEntries(E) == IF E.t = "arr" THEN EntriesIn(E.items) ELSE <<E>>

\* the decorated failure the caller is promised for the k-th non-zero status
Promised(k) ==
  [kind |-> "status", code |-> NonZero[k].code,
   entry |-> OriginalEntries(arg)[NonZero[k].index + 1]]

\* the per-entry failures emitted as events, and the events of a given type
StatusEvents == SelectSeq(emitted, LAMBDA ev : ev.payload.kind = "status")
EventsOfType(type) == SelectSeq(emitted, LAMBDA ev : ev.type = type)

\* a sequence is the first Len(d) promised failures
IsPromisedPrefix(d) ==
  /\ Len(d) <= Len(NonZero)
  /\ \A k \in 1..Len(d) : d[k] = Promised(k)

(***************************************************************************)
(* C1: every decorated failure mutate hands to the caller (pushed to the   *)
(* callback's buffer, passed to the callback, or emitted as an 'error'     *)
(* event) carries as its entry the caller's own entry object found at the  *)
(* reported index of the flattened, order-preserved argument.              *)
(***************************************************************************)
C1_FailureCarriesOriginalEntry ==
  op = "mutate" =>
    /\ IsPromisedPrefix(pushed)
    /\ IsPromisedPrefix([k \in 1..Len(StatusEvents) |-> StatusEvents[k].payload])
    /\ \A c \in 1..Len(callbackCalls) : IsPromisedPrefix(callbackCalls[c].result)
    /\ \A k \in 1..Len(pushed) : pushed[k].entry.t = "obj"
    /\ \A k \in 1..Len(StatusEvents) : StatusEvents[k].payload.entry.t = "obj"

\* a nested list whose two entries fail in reverse order, reported to the callback
C1_Witness ==
  /\ op = "mutate" /\ pc = "ended" /\ isCallbackMode
  /\ arg = Arr(<<Arr(LeafSeq(2))>>)
  /\ Len(callbackCalls) = 1
  /\ Len(callbackCalls[1].result) = 2
  /\ callbackCalls[1].result[1].entry = Obj(2)
  /\ callbackCalls[1].result[2].entry = Obj(1)

(***************************************************************************)
(* C2: no result object is produced for a status with code 0; and when     *)
(* every status of a call has code 0 and the stream completes, the         *)
(* callback gets (null, []) or the emitter emits exactly one 'complete'    *)
(* and no 'error'.                                                         *)
(***************************************************************************)
C2_AllSuccessYieldsEmptyReport ==
  op = "mutate" =>
    /\ \A k \in 1..Len(pushed) : pushed[k].code # 0
    /\ \A k \in 1..Len(StatusEvents) : StatusEvents[k].payload.code # 0
    /\ Len(pushed) + Len(StatusEvents) <= Len(NonZero)
    /\ (pc = "ended" /\ NonZero = <<>>) =>
         IF isCallbackMode
         THEN /\ Len(callbackCalls) = 1
              /\ callbackCalls[1].err = NoPayload
              /\ callbackCalls[1].hasResult
              /\ callbackCalls[1].result = <<>>
         ELSE /\ Len(emitted) = 1
              /\ emitted[1].type = "complete"

\* two entries, both reported successful, in emitter mode
C2_Witness ==
  /\ op = "mutate" /\ pc = "ended" /\ ~isCallbackMode
  /\ Len(Wire) = 2 /\ NonZero = <<>>
  /\ Len(EventsOfType("complete")) = 1

(***************************************************************************)
(* C3 (as the specification states it): mutate with a zero-length entries  *)
(* array fails before any stream is opened: requestStream is not invoked   *)
(* and the failure is raised to the caller.                                *)
(***************************************************************************)
C3_EmptyEntriesFailBeforeStream ==
  (op = "mutate" /\ arg.t = "arr" /\ arg.items = <<>>) =>
    /\ requestStreamCalls = 0
    /\ pc = "threw"

(***************************************************************************)
(* C4 (as the specification states it): mutate with more entries than the  *)
(* batch limit fails before any network call; an accepted call sends as    *)
(* many encoded entries as the flattened argument holds.                   *)
(***************************************************************************)
C4_OversizedBatchFailsBeforeStream ==
  op = "mutate" =>
    /\ Len(OriginalEntries(arg)) > MaxBatch => (requestStreamCalls = 0 /\ pc = "threw")
    /\ requestStreamCalls > 0 => Len(mutateReq.entries) = Len(OriginalEntries(arg))

(***************************************************************************)
(* C5: in callback mode mutate invokes the callback at most once, never    *)
(* before the stream is over; on completion with (null, failures) where    *)
(* failures are all the decorated non-zero statuses in arrival order; on a *)
(* stream error with (error) alone.                                        *)
(***************************************************************************)
C5_MutateCallbackOnce ==
  (op = "mutate" /\ isCallbackMode) =>
    /\ Len(callbackCalls) <= 1
    /\ pc \in {"idle", "open", "threw"} => callbackCalls = <<>>
    /\ pc = "ended" =>
         /\ Len(callbackCalls) = 1
         /\ callbackCalls[1].err = NoPayload
         /\ callbackCalls[1].hasResult
         /\ callbackCalls[1].result = [k \in 1..Len(NonZero) |-> Promised(k)]
    /\ pc = "errored" =>
         /\ Len(callbackCalls) = 1
         /\ callbackCalls[1].err = StreamErr
         /\ ~callbackCalls[1].hasResult
         /\ callbackCalls[1].result = <<>>
    /\ emitted = <<>>

\* two failures in two messages: the callback gets both, in arrival order
C5_Witness ==
  /\ op = "mutate" /\ isCallbackMode /\ pc = "ended"
  /\ Len(received) = 2 /\ Len(received[1]) = 1 /\ Len(received[2]) = 1
  /\ Len(callbackCalls) = 1
  /\ Len(callbackCalls[1].result) = 2

(***************************************************************************)
(* C6 (as the specification states it): in emitter mode no event precedes  *)
(* the return of the handle, nothing is pushed downstream, and every       *)
(* non-zero status of a message the handler has taken up has been emitted  *)
(* as its own 'error' event, decorated, by that message's handler.         *)
(***************************************************************************)
C6_EveryFailureEmittedAtOnce ==
  (op = "mutate" /\ ~isCallbackMode) =>
    /\ pc = "idle" => emitted = <<>>
    /\ pushed = <<>>
    /\ LET taken == Concat(SubSeq(received, 1, processed))
           failed == SelectSeq(taken, LAMBDA e : e.code # 0)
       IN /\ Len(StatusEvents) = Len(failed)
          /\ \A k \in 1..Len(StatusEvents) :
               /\ StatusEvents[k].type = "error"
               /\ StatusEvents[k].payload = Promised(k)
               /\ StatusEvents[k].during \in 1..processed
               /\ \E j \in 1..Len(received[StatusEvents[k].during]) :
                    received[StatusEvents[k].during][j] = failed[k]

(***************************************************************************)
(* C7: in emitter mode 'complete' is emitted at most once, exactly once    *)
(* when the stream has completed, without payload, as the last event, and  *)
(* only when every non-zero status of the call has been emitted as an      *)
(* 'error' event.                                                          *)
(***************************************************************************)
C7_CompleteOnceAfterAllFailures ==
  (op = "mutate" /\ ~isCallbackMode) =>
    /\ Len(EventsOfType("complete")) <= 1
    /\ pc = "ended" => Len(EventsOfType("complete")) = 1
    /\ \A i \in 1..Len(emitted) :
         emitted[i].type = "complete" =>
           /\ i = Len(emitted)
           /\ emitted[i].payload = NoPayload
           /\ Len(StatusEvents) = Len(NonZero)
           /\ \A k \in 1..Len(StatusEvents) : StatusEvents[k].payload = Promised(k)
           /\ EventsOfType("error") = StatusEvents

\* two failures in two messages, both emitted, then 'complete'
C7_Witness ==
  /\ op = "mutate" /\ ~isCallbackMode /\ pc = "ended"
  /\ Len(received) = 2 /\ Len(received[1]) = 1 /\ Len(received[2]) = 1
  /\ Len(emitted) = 3
  /\ emitted[1].type = "error" /\ emitted[2].type = "error"
  /\ emitted[3].type = "complete"

(***************************************************************************)
(* C8: in callback mode getRows invokes the callback at most once, never   *)
(* before the stream is over; on completion with (null, rows) holding      *)
(* every reconstructed row in emission order; on a stream failure with     *)
(* (error) alone, never with the rows buffered so far.                     *)
(***************************************************************************)
C8_GetRowsCallbackOnce ==
  (op = "getRows" /\ isCallbackMode) =>
    /\ Len(callbackCalls) <= 1
    /\ pc \in {"idle", "open"} => callbackCalls = <<>>
    /\ pc = "ended" =>
         /\ Len(callbackCalls) = 1
         /\ callbackCalls[1].err = NoPayload
         /\ callbackCalls[1].hasResult
         /\ callbackCalls[1].result =
              [k \in 1..Len(Wire) |->
                 [table |-> TableId, key |-> Wire[k].rowKey, data |-> Wire[k].value]]
    /\ pc = "errored" =>
         /\ Len(callbackCalls) = 1
         /\ callbackCalls[1].err = StreamErr
         /\ ~callbackCalls[1].hasResult
         /\ callbackCalls[1].result = <<>>

\* the stream fails after rows were already buffered: the callback gets the error alone
C8_Witness ==
  /\ op = "getRows" /\ isCallbackMode /\ pc = "errored"
  /\ Len(pushed) >= 2
  /\ Len(callbackCalls) = 1
  /\ ~callbackCalls[1].hasResult

(***************************************************************************)
(* C9 (as the specification states it): when options contain start or end  *)
(* together with an explicit ranges list, the request's row ranges are the *)
(* explicit ranges in their order followed by the {start, end} range.      *)
(***************************************************************************)
\* the request's row ranges are the explicit ranges followed by the shorthand
ShorthandAppended ==
  LET explicit == arg.ranges.v
      rr == readReq.rowRanges.v
  IN /\ readReq.hasRows
     /\ readReq.rowRanges.def
     /\ Len(rr) = Len(explicit) + 1
     /\ \A i \in 1..Len(explicit) :
          rr[i].startKey = explicit[i].start /\ rr[i].endKey = explicit[i].end
     /\ rr[Len(rr)].startKey = arg.start
     /\ rr[Len(rr)].endKey = arg.end

C9_ShorthandAppendedWhenPresent ==
  (op = "getRows" /\ arg.ranges.def /\ (arg.start # Undefined \/ arg.end # Undefined))
    => ShorthandAppended

(***************************************************************************)
(* C9 (amended): when options contain a non-empty start or a non-empty end *)
(* together with an explicit ranges list, the request's row ranges are the *)
(* explicit ranges in their order followed by the {start, end} range, so   *)
(* their number is |ranges| + 1.                                           *)
(***************************************************************************)
NonEmpty(v) == v # Undefined /\ v # ""

C9_ShorthandAppendedWhenNonEmpty ==
  (op = "getRows" /\ arg.ranges.def /\ (NonEmpty(arg.start) \/ NonEmpty(arg.end)))
    => ShorthandAppended

\* two explicit ranges and a start key: three row ranges are requested
C9_Witness ==
  /\ op = "getRows"
  /\ arg.ranges.def /\ Len(arg.ranges.v) = 2
  /\ arg.start = "s" /\ arg.end = Undefined
  /\ Len(readReq.rowRanges.v) = 3

(***************************************************************************)
(* C10 (as the specification states it): when a call supplies keys and     *)
(* ranges (a ranges list and/or start/end), the request holds the row keys,*)
(* one encoded key per supplied key in order, and the row ranges.          *)
(***************************************************************************)
KeysAndRangesRequested ==
  /\ readReq.hasRows
  /\ readReq.rowKeys.def
  /\ Len(readReq.rowKeys.v) = Len(arg.keys.v)
  /\ \A i \in 1..Len(arg.keys.v) : readReq.rowKeys.v[i].bytes = arg.keys.v[i]
  /\ readReq.rowRanges.def
  /\ Len(readReq.rowRanges.v) >= 1
  /\ Len(readReq.rowRanges.v) >= Len(arg.ranges.v)
  /\ \A i \in 1..Len(arg.ranges.v) :
       /\ readReq.rowRanges.v[i].startKey = arg.ranges.v[i].start
       /\ readReq.rowRanges.v[i].endKey = arg.ranges.v[i].end

C10_KeysAndRangesWhenPresent ==
  (/\ op = "getRows"
   /\ Len(arg.keys.v) > 0
   /\ (Len(arg.ranges.v) > 0 \/ arg.start # Undefined \/ arg.end # Undefined))
    => KeysAndRangesRequested

(***************************************************************************)
(* C10 (amended): when a call supplies keys and ranges (a non-empty ranges *)
(* list and/or a non-empty start or end), the request holds the row keys,  *)
(* one encoded key per supplied key in order, and the row ranges.          *)
(***************************************************************************)
C10_KeysAndRangesWhenNonEmpty ==
  (/\ op = "getRows"
   /\ Len(arg.keys.v) > 0
   /\ (Len(arg.ranges.v) > 0 \/ NonEmpty(arg.start) \/ NonEmpty(arg.end)))
    => KeysAndRangesRequested

\* two keys, one explicit range and an end key: two row keys, two row ranges
C10_Witness ==
  /\ op = "getRows"
  /\ Len(arg.keys.v) = 2
  /\ Len(arg.ranges.v) = 1
  /\ arg.start = Undefined /\ arg.end = "t"
  /\ Len(readReq.rowKeys.v) = 2
  /\ Len(readReq.rowRanges.v) = 2

(***************************************************************************)
(* C11 (as the specification states it): neither mutate nor insert changes *)
(* the caller's entry objects or entry list: after the call every object   *)
(* the caller passed has the fields and values it had before (insert       *)
(* writes no `method` onto them) and the entries are in the same order.    *)
(***************************************************************************)
C11_CallerEntriesUnchanged ==
  op = "mutate" => callerArgAfter = callerArg

(***************************************************************************)
(* C12 (as the specification states it): through insert every entry handed *)
(* to the encoder carries method = insert whatever method the caller had   *)
(* set, for a single entry, a flat list and a nested list alike, and the   *)
(* entries reach the encoder in the order mutate gives them.               *)
(***************************************************************************)
C12_InsertTagsEveryEntry ==
  (op = "mutate" /\ viaInsert /\ pc # "threw") =>
    /\ Len(entries) = Len(OriginalEntries(callerArg))
    /\ \A i \in 1..Len(entries) :
         /\ entries[i].key = OriginalEntries(callerArg)[i].key
         /\ entries[i].method = "insert"

(***************************************************************************)
(* C13 (as the specification states it): once the consumer of the stream   *)
(* returned by getRows or sampleRowKeys has ended it early, no further row *)
(* or key is delivered to the consumer.                                    *)
(***************************************************************************)
C13_NoDeliveryAfterEarlyEnd ==
  [][consumerEnded => delivered' = delivered]_vars

(***************************************************************************)
(* C14: for the same chunk messages the array getRows hands its callback   *)
(* and the rows a stream consumer that never ends the stream early gets as *)
(* 'data' are the same rows, element by element and in order: each is the  *)
(* sequence of rows the messages of its own call stand for, whatever       *)
(* happened in another call.                                               *)
(***************************************************************************)
\* the rows the chunk messages of the call stand for, in arrival order
RowsOfMessages ==
  [k \in 1..Len(Wire) |->
     [table |-> TableId, key |-> Wire[k].rowKey, data |-> Wire[k].value]]

C15_FailureNeverAbortsSiblings ==
  op = "mutate" =>
    LET taken == Concat(SubSeq(received, 1, processed))
        failed == SelectSeq(taken, LAMBDA e : e.code # 0)
        yielded == IF isCallbackMode THEN pushed
                   ELSE [k \in 1..Len(StatusEvents) |-> StatusEvents[k].payload]
    IN /\ Len(yielded) = Len(failed)
       /\ \A k \in 1..Len(yielded) : yielded[k] = Promised(k)
       /\ pc = "ended" => processed = Len(received)

(***************************************************************************)
(* C16: each call of getRows, mutate or sampleRowKeys opens exactly one    *)
(* streaming call and never another; a stream-level error is surfaced to   *)
(* the caller exactly once (an 'error' event or the callback's error), and *)
(* once it is surfaced nothing more is pushed, delivered, emitted or       *)
(* passed to the callback, and the request is not issued again.            *)
(***************************************************************************)
\* how often the stream-level error has been surfaced to the caller
StreamErrorsSurfaced ==
  Len(SelectSeq(emitted, LAMBDA ev : ev.payload = StreamErr))
    + Len(SelectSeq(callbackCalls, LAMBDA c : c.err = StreamErr))

C16_OneCallErrorSurfacedOnce ==
  /\ [](/\ requestStreamCalls <= 1
        /\ pc \in {"open", "ended", "errored", "crashed"} => requestStreamCalls = 1
        /\ StreamErrorsSurfaced <= 1
        /\ pc = "errored" => StreamErrorsSurfaced = 1)
  /\ [][StreamErrorsSurfaced = 1 =>
          /\ pushed' = pushed
          /\ delivered' = delivered
          /\ emitted' = emitted
          /\ callbackCalls' = callbackCalls
          /\ requestStreamCalls' = requestStreamCalls]_vars

\* a row stream fails with a row delivered and a message still waiting
C16_Witness ==
  /\ op = "getRows" /\ ~isCallbackMode /\ pc = "errored"
  /\ Len(delivered) >= 1 /\ queue # <<>>
  /\ requestStreamCalls = 1
  /\ StreamErrorsSurfaced = 1

(***************************************************************************)
(* C20: in emitter mode of mutate a forwarded stream-level error and       *)
(* 'complete' exclude each other: no call emits both, so once the stream   *)
(* error has been emitted 'complete' never follows, and a call that        *)
(* emitted 'complete' did not fail at the stream level.                    *)
(***************************************************************************)
C20_StreamErrorExcludesComplete ==
  (op = "mutate" /\ ~isCallbackMode) =>
    /\ ~(/\ \E i \in 1..Len(emitted) : emitted[i].payload = StreamErr
         /\ \E j \in 1..Len(emitted) : emitted[j].type = "complete")
    /\ pc = "errored" => EventsOfType("complete") = <<>>
    /\ pc = "ended" => \A i \in 1..Len(emitted) : emitted[i].payload # StreamErr

\* a per-entry failure was emitted, then the stream failed: no 'complete'
C20_Witness ==
  /\ op = "mutate" /\ ~isCallbackMode /\ pc = "errored"
  /\ Len(emitted) = 2
  /\ emitted[1].payload.kind = "status"
  /\ emitted[2].payload = StreamErr
  /\ EventsOfType("complete") = <<>>

(***************************************************************************)
(* C17 (as the specification states it): the getRows request carries a     *)
(* row-key list if and only if `keys` is non-empty, and a row-range list   *)
(* if and only if the range list (explicit ranges plus the shorthand) is   *)
(* non-empty; with keys absent or empty and no ranges the request has no   *)
(* row selection at all.                                                   *)
(***************************************************************************)
C17_RowSelectionIffNonEmpty ==
  op = "getRows" =>
    /\ readReq.rowKeys.def <=> Len(arg.keys.v) > 0
    /\ readReq.rowRanges.def <=> Len(options.ranges.v) > 0
    /\ (Len(arg.keys.v) = 0 /\ Len(options.ranges.v) = 0) => ~readReq.hasRows

(***************************************************************************)
(* C18 (as the specification states it): when `limit` is set to an integer *)
(* n >= 0 the request's numRowsLimit is n; when `limit` is not set the     *)
(* request has no row limit.                                               *)
(***************************************************************************)
C18_LimitCarriedWhenSet ==
  op = "getRows" =>
    IF arg.limit.def
    THEN readReq.numRowsLimit = Limit(arg.limit.v)
    ELSE readReq.numRowsLimit = NoLimit

(***************************************************************************)
(* C19: every row the read pipeline hands downstream has its key and its   *)
(* assembled data attached when it is pushed; the rows pushed are those of *)
(* the messages taken up so far, whole messages only, in the order the     *)
(* reconstructor yields them within a message and in arrival order across  *)
(* messages; the consumer is handed them in that order.                    *)
(***************************************************************************)
\* the rows the reconstructor yields for the m-th message, bound to table and key
RowsOfMessage(m) ==
  [i \in 1..Len(received[m]) |->
     [table |-> TableId, key |-> received[m][i].rowKey, data |-> received[m][i].value]]

C19_RowsCompleteAndInOrder ==
  op = "getRows" =>
    /\ processed + Len(queue) = Len(received)
    /\ pushed = Concat([m \in 1..processed |-> RowsOfMessage(m)])
    /\ Len(delivered) <= Len(pushed)
    /\ delivered = SubSeq(pushed, 1, Len(delivered))

\* the second message waits while the two rows of the first are handed on
C19_Witness ==
  /\ op = "getRows" /\ pc = "open" /\ ~isCallbackMode
  /\ processed = 1 /\ Len(queue) = 1
  /\ Len(received[1]) = 2 /\ Len(received[2]) = 2
  /\ Len(pushed) = 2 /\ Len(delivered) = 1
  /\ pushed[2].key = 2 /\ pushed[2].data = 102

(***************************************************************************)
(* C21 (as the specification states it): two getRows calls with the same   *)
(* options object produce the same request: the second request equals the  *)
(* first, and its range list has the length of the first's.                *)
(***************************************************************************)
C21_SameOptionsSameRequest ==
  (op = "getRows" /\ prevReq # NoReadReq) =>
    /\ Len(readReq.rowRanges.v) = Len(prevReq.rowRanges.v)
    /\ readReq = prevReq

(***************************************************************************)
(* C22: sampleRowKeys hands on exactly one {key, offset} per item taken    *)
(* from the sample stream, in arrival order, key being the raw rowKey and  *)
(* offset the raw offsetBytes; a stream consumer gets them in that order;  *)
(* in callback mode the callback is invoked at most once, never before the *)
(* stream is over: with (null, all items in order) on completion, with     *)
(* (error) alone on a stream failure.                                      *)
(***************************************************************************)
\* the item promised for the k-th raw sample
SampleOf(k) == [key |-> Wire[k].rowKey, offset |-> Wire[k].offsetBytes]

C22_SampleKeysRenamedInOrder ==
  op = "sampleRowKeys" =>
    /\ pushed = [k \in 1..processed |-> SampleOf(k)]
    /\ Len(delivered) <= Len(pushed)
    /\ delivered = SubSeq(pushed, 1, Len(delivered))
    /\ (pc = "ended" /\ ~isCallbackMode) => Len(delivered) = Len(Wire)
    /\ ~isCallbackMode => callbackCalls = <<>>
    /\ isCallbackMode =>
         /\ Len(callbackCalls) <= 1
         /\ pc \in {"idle", "open"} => callbackCalls = <<>>
         /\ pc = "ended" =>
              /\ Len(callbackCalls) = 1
              /\ callbackCalls[1].err = NoPayload
              /\ callbackCalls[1].hasResult
              /\ callbackCalls[1].result = [k \in 1..Len(Wire) |-> SampleOf(k)]
         /\ pc = "errored" =>
              /\ Len(callbackCalls) = 1
              /\ callbackCalls[1].err = StreamErr
              /\ ~callbackCalls[1].hasResult

\* two samples, handed to the callback in arrival order
C22_Witness ==
  /\ op = "sampleRowKeys" /\ isCallbackMode /\ pc = "ended"
  /\ Len(callbackCalls) = 1
  /\ Len(callbackCalls[1].result) = 2
  /\ callbackCalls[1].result[1] = [key |-> "a", offset |-> 1024]
  /\ callbackCalls[1].result[2] = [key |-> "b", offset |-> 2048]

(***************************************************************************)
(* C23: when the filter of a getRows call cannot be parsed the whole call  *)
(* fails: the error is raised to the caller, no streaming call is opened   *)
(* and no request is built; a request that was sent carries the parsed     *)
(* form of the filter the caller gave, never a silent omission of it.      *)
(***************************************************************************)
C23_UnparsableFilterFailsCall ==
  op = "getRows" =>
    /\ (Truthy(arg.filter) /\ FilterParseRaises(arg.filter)) =>
         /\ pc = "threw"
         /\ requestStreamCalls = 0
         /\ readReq = NoReadReq
         /\ received = <<>> /\ callbackCalls = <<>> /\ emitted = <<>>
    /\ requestStreamCalls > 0 =>
         /\ ~FilterParseRaises(arg.filter)
         /\ Truthy(arg.filter) => readReq.filter = FilterParse(arg.filter)
         /\ Truthy(arg.filter) => readReq.filter # Undefined

\* a malformed filter next to a start key: the call has thrown, nothing was opened
C23_Witness ==
  /\ op = "getRows" /\ pc = "threw"
  /\ arg.filter = MalformedFilter /\ arg.start = "s"
  /\ requestStreamCalls = 0
  /\ readReq = NoReadReq

====
